---- MODULE Spec2Model ----
(***************************************************************************)
(* The SIMON DPI-C golden model (tb-c): the five key schedules, the five   *)
(* encryption and decryption routines, the byte/word codec and the         *)
(* dispatcher dpi_c_run_simon, as a state machine.                         *)
(*                                                                         *)
(* A machine word (u8, u32, u64) is the set of the positions of its 1      *)
(* bits, so that the width of every shift and cast is explicit.            *)
(***************************************************************************)
EXTENDS Integers, Sequences, FiniteSets, TLC

(* ------------------------------ bounds --------------------------------- *)
\* calls of dpi_c_run_simon in one run of the testbench
MaxCalls == 2
\* keys handed to the first call: the byte patterns 0..MaxKeySeed, and the
\* published keys
MaxKeySeed == 0
\* texts handed to the first call: the byte patterns 0..MaxTxtSeed, and the
\* published plaintexts
MaxTxtSeed == 0

(* --------------------------- program constants ------------------------- *)
N_ROUNDS__64_96 == 42
N_ROUNDS__64_128 == 44
N_ROUNDS__128_128 == 68
N_ROUNDS__128_192 == 69
N_ROUNDS__128_256 == 72
MODE_ENC == 0
MODE_DEC == 1

(* ------------------------------- words --------------------------------- *)
\* an integer literal of the source (small values only)
Lit(n) == {k \in 0..30 : (n \div (2^k)) % 2 = 1}
\* a hexadecimal literal, most significant digit first
Hex(ds) == {k \in 0..(4 * Len(ds) - 1) : (ds[Len(ds) - (k \div 4)] \div (2^(k % 4))) % 2 = 1}

\* the casts (u8), (u32), (u64) and the truncation of a store to that type
U8(x) == {k \in x : k < 8}
U32(x) == {k \in x : k < 32}
U64(x) == {k \in x : k < 64}

\* the C operators ^ & | >> and << (before the result is cut to its type)
XOR(x, y) == {k \in 0..63 : (k \in x) # (k \in y)}
AND(x, y) == {k \in x : k \in y}
OR(x, y) == {k \in 0..63 : k \in x \/ k \in y}
SHR(x, r) == {k - r : k \in {j \in x : j >= r}}
SHL(x, r) == {k + r : k \in x}

ROTL32(x, r) == OR(U32(SHL(x, r)), SHR(x, 32 - r))
ROTR32(x, r) == OR(SHR(x, r), U32(SHL(x, 32 - r)))
ROTL64(x, r) == OR(U64(SHL(x, r)), SHR(x, 64 - r))
ROTR64(x, r) == OR(SHR(x, r), U64(SHL(x, 64 - r)))

\* f32 with the rotation amounts 8 and 2 exchanged
f32Swapped(x) == XOR(AND(ROTL32(x, 1), ROTL32(x, 2)), ROTL32(x, 8))
f32(x) == XOR(AND(ROTL32(x, 1), ROTL32(x, 8)), ROTL32(x, 2))
f64(x) == XOR(AND(ROTL64(x, 1), ROTL64(x, 8)), ROTL64(x, 2))

\* R32x2(x,y,k1,k2): y^=f32(x), y^=k1, x^=f32(y), x^=k2; the new <<x, y>>
R32x2(x, y, k1, k2) ==
    LET y1 == XOR(XOR(y, f32(x)), k1)
        x1 == XOR(XOR(x, f32(y1)), k2)
    IN  <<x1, y1>>
R64x2(x, y, k1, k2) ==
    LET y1 == XOR(XOR(y, f64(x)), k1)
        x1 == XOR(XOR(x, f64(y1)), k2)
    IN  <<x1, y1>>

(* ------------------------------ arrays --------------------------------- *)
\* A C array is a function from the indices that have been assigned to
\* their values; its declared size is kept beside it where it matters.
\* Unassigned == the array as declared, nothing assigned yet.
Unassigned == <<>>
\* arr[idx], an element the routine reads in an array it was handed.  The
\* block routines read assigned elements of rk only (C8_RoundKeyOrder).
Rd(arr, idx) == IF idx \in DOMAIN arr THEN arr[idx] ELSE {}
Wr(arr, idx, v) == (idx :> v) @@ arr

(* ---------------------------- byte/word codec -------------------------- *)
\* The iterations of each loop are independent of one another (iteration
\* i reads and writes the elements of index 4i..4i+3, or 8i..8i+7, and
\* word i only), so a loop is given by what iteration i does.

\* for(i=0;i<numbytes/4;i++) words[i]=(u32)bytes[j] | ((u32)bytes[j+1]<<8) | ...
BytesToWords32(bytes, words, numbytes) ==
    [i \in 0..(numbytes \div 4 - 1) |->
        LET j == 4 * i
        IN  OR(OR(OR(U32(Rd(bytes, j)), U32(SHL(U32(Rd(bytes, j + 1)), 8))),
                  U32(SHL(U32(Rd(bytes, j + 2)), 16))),
               U32(SHL(U32(Rd(bytes, j + 3)), 24)))] @@ words

\* for(i=0;i<numbytes/8;i++) words[i]=(u64)bytes[j] | ((u64)bytes[j+1]<<8) | ...
BytesToWords64(bytes, words, numbytes) ==
    [i \in 0..(numbytes \div 8 - 1) |->
        LET j == 8 * i
            B(k) == U64(SHL(U64(Rd(bytes, j + k)), 8 * k))
        IN  OR(OR(OR(OR(OR(OR(OR(B(0), B(1)), B(2)), B(3)), B(4)), B(5)), B(6)), B(7))] @@ words

\* Words32ToBytes / Words64ToBytes.  m is the marshalling record:
\*   words           the word array
\*   bytes, nbytes   the byte array and its declared size
\*   g               the values the build finds in words that were never
\*                   assigned (indeterminate in C)
\* and the result adds to it
\*   rd, wr          the word indices read and the byte indices written
\*   indet           the bytes of the array written from such a word
\* A byte written at or past nbytes lands outside the array: its index is
\* in wr, and its value is not kept.
WordsToBytesWord(m, i) ==
    IF i \in DOMAIN m.words THEN m.words[i]
    ELSE IF i \in DOMAIN m.g THEN m.g[i] ELSE {}
\* bpw bytes a word: bytes[j+k]=(u8)(words[i]>>8k), for k < bpw, j = bpw*i
WordsToBytes(m, numwords, bpw) ==
    LET wr == {bpw * i + k : i \in 0..(numwords - 1), k \in 0..(bpw - 1)}
        inside == {j \in wr : j < m.nbytes}
    IN  [m EXCEPT !.bytes = [j \in inside |->
                                U8(SHR(WordsToBytesWord(m, j \div bpw), 8 * (j % bpw)))] @@ @,
                  !.rd = 0..(numwords - 1),
                  !.wr = wr,
                  !.indet = {j \in inside : (j \div bpw) \notin DOMAIN m.words}]
Words32ToBytes(m, numwords) == WordsToBytes(m, numwords, 4)
Words64ToBytes(m, numwords) == WordsToBytes(m, numwords, 8)

(* ----------------------------- key schedules --------------------------- *)
\* The frame of a key-schedule routine:
\*   at          "entry" before its first statement, "loop" at the loop
\*               test, "ret" once it has returned
\*   i, z        its locals i and z;  A, B, C, D  its rolling registers
\*   rk, n       the caller's rk array, and the size it was declared with
\*   writes      the indices of rk assigned so far, in order
\*   bits        the values of (z&1) XORed into an update so far, in order
KsFrame(n) ==
    [at |-> "entry", i |-> 0, z |-> {}, A |-> {}, B |-> {}, C |-> {}, D |-> {},
     rk |-> Unassigned, n |-> n, writes |-> <<>>, bits |-> <<>>]

c32 == Hex(<<15, 15, 15, 15, 15, 15, 15, 12>>)
c64 == Hex(<<15, 15, 15, 15, 15, 15, 15, 15, 15, 15, 15, 15, 15, 15, 15, 12>>)
\* 0x7369f885192c0ef5 (Simon64/96 and Simon128/128)
z_7369 == Hex(<<7, 3, 6, 9, 15, 8, 8, 5, 1, 9, 2, 12, 0, 14, 15, 5>>)
\* 0xfc2ce51207a635db (Simon64/128 and Simon128/192)
z_fc2c == Hex(<<15, 12, 2, 12, 14, 5, 1, 2, 0, 7, 10, 6, 3, 5, 13, 11>>)
\* 0xfdc94c3a046d678b (Simon128/256)
z_fdc9 == Hex(<<15, 13, 12, 9, 4, 12, 3, 10, 0, 4, 6, 13, 6, 7, 8, 11>>)

\* rk[idx]=v
RkStore(s, idx, v) ==
    [s EXCEPT !.rk = IF idx < s.n THEN Wr(@, idx, v) ELSE @,
              !.writes = Append(@, idx)]
\* (z&1)
ZBit(s) == AND(s.z, Lit(1))
\* the shift of z left out
ZShiftNone(s) == s
\* z>>=1
ZShift(s) == [s EXCEPT !.z = SHR(@, 1)]
\* the bit b goes into an update: from z when drawn, else a literal
ZDrawn(s) == [s EXCEPT !.bits = Append(@, ZBit(s))]

\* c^b^ROTR64(Y,3)^ROTR64(Y,4)
Mix2(b, Y) == XOR(XOR(XOR(c64, b), ROTR64(Y, 3)), ROTR64(Y, 4))
\* c^b^ROTR64(Y,3)^ROTR64(Y,4)^W^ROTR64(W,1)
Mix4(b, Y, W) == XOR(XOR(Mix2(b, Y), W), ROTR64(W, 1))

\* rk[i++]=R
Emit(s, R) == [RkStore(s, s.i, s[R]) EXCEPT !.i = @ + 1]
\* rk[i++]=R; R^=c^(z&1)^ROTR64(Y,3)^ROTR64(Y,4); z>>=1;
SubRound2(s, R, Y) ==
    LET e == Emit(s, R)
    IN  ZShift(ZDrawn([e EXCEPT ![R] = XOR(@, Mix2(ZBit(e), e[Y]))]))
\* rk[i++]=R; R^=c^(z&1)^ROTR64(Y,3)^ROTR64(Y,4)^W^ROTR64(W,1); z>>=1;
SubRound4(s, R, Y, W) ==
    LET e == Emit(s, R)
    IN  ZShift(ZDrawn([e EXCEPT ![R] = XOR(@, Mix4(ZBit(e), e[Y], e[W]))]))
\* a closing update that leaves the literal bit out
Closing2NoBit(s, idx, R, lit, Y) ==
    LET e == RkStore(s, idx, s[R])
    IN  [e EXCEPT ![R] = XOR(@, Mix2(Lit(0), e[Y]))]
\* rk[idx]=R; R^=c^lit^ROTR64(Y,3)^ROTR64(Y,4);
Closing2(s, idx, R, lit, Y) ==
    LET e == RkStore(s, idx, s[R])
    IN  [e EXCEPT ![R] = XOR(@, Mix2(Lit(lit), e[Y]))]
\* rk[idx]=R; R^=c^lit^ROTR64(Y,3)^ROTR64(Y,4)^W^ROTR64(W,1);
Closing4(s, idx, R, lit, Y, W) ==
    LET e == RkStore(s, idx, s[R])
    IN  [e EXCEPT ![R] = XOR(@, Mix4(Lit(lit), e[Y], e[W]))]

\* Simon6496KeySchedule with the loop bound of Simon64128KeySchedule
Simon6496KeyScheduleLong(K, s) ==
    IF s.at = "entry"
    THEN [RkStore(RkStore(RkStore(s, 0, Rd(K, 0)), 1, Rd(K, 1)), 2, Rd(K, 2))
            EXCEPT !.z = z_7369, !.i = 3, !.at = "loop"]
    ELSE IF s.i < 44
    THEN LET v == XOR(XOR(XOR(XOR(c32, ZBit(s)), Rd(s.rk, s.i - 3)),
                          ROTR32(Rd(s.rk, s.i - 1), 3)), ROTR32(Rd(s.rk, s.i - 1), 4))
         IN  [ZShift(ZDrawn(RkStore(s, s.i, U32(v)))) EXCEPT !.i = @ + 1]
    ELSE [s EXCEPT !.at = "ret"]

Simon6496KeySchedule(K, s) ==
    IF s.at = "entry"
    THEN [RkStore(RkStore(RkStore(s, 0, Rd(K, 0)), 1, Rd(K, 1)), 2, Rd(K, 2))
            EXCEPT !.z = z_7369, !.i = 3, !.at = "loop"]
    ELSE IF s.i < 42
    THEN LET v == XOR(XOR(XOR(XOR(c32, ZBit(s)), Rd(s.rk, s.i - 3)),
                          ROTR32(Rd(s.rk, s.i - 1), 3)), ROTR32(Rd(s.rk, s.i - 1), 4))
         IN  [ZShift(ZDrawn(RkStore(s, s.i, U32(v)))) EXCEPT !.i = @ + 1]
    ELSE [s EXCEPT !.at = "ret"]

Simon64128KeySchedule(K, s) ==
    IF s.at = "entry"
    THEN [RkStore(RkStore(RkStore(RkStore(s, 0, Rd(K, 0)), 1, Rd(K, 1)), 2, Rd(K, 2)), 3, Rd(K, 3))
            EXCEPT !.z = z_fc2c, !.i = 4, !.at = "loop"]
    ELSE IF s.i < 44
    THEN LET v == XOR(XOR(XOR(XOR(XOR(XOR(c32, ZBit(s)), Rd(s.rk, s.i - 4)),
                                  ROTR32(Rd(s.rk, s.i - 1), 3)), Rd(s.rk, s.i - 3)),
                          ROTR32(Rd(s.rk, s.i - 1), 4)), ROTR32(Rd(s.rk, s.i - 3), 1))
         IN  [ZShift(ZDrawn(RkStore(s, s.i, U32(v)))) EXCEPT !.i = @ + 1]
    ELSE [s EXCEPT !.at = "ret"]

Simon128128KeySchedule(K, s) ==
    IF s.at = "entry"
    THEN [s EXCEPT !.B = Rd(K, 1), !.A = Rd(K, 0), !.z = z_7369, !.i = 0, !.at = "loop"]
    ELSE IF s.i < 64
    THEN SubRound2(SubRound2(s, "A", "B"), "B", "A")
    ELSE LET s1 == Closing2(s, 64, "A", 1, "B")
             s2 == Closing2(s1, 65, "B", 0, "A")
         IN  [RkStore(RkStore(s2, 66, s2.A), 67, s2.B) EXCEPT !.at = "ret"]

Simon128192KeySchedule(K, s) ==
    IF s.at = "entry"
    THEN [s EXCEPT !.C = Rd(K, 2), !.B = Rd(K, 1), !.A = Rd(K, 0),
                   !.z = z_fc2c, !.i = 0, !.at = "loop"]
    ELSE IF s.i < 63
    THEN SubRound2(SubRound2(SubRound2(s, "A", "C"), "B", "A"), "C", "B")
    ELSE LET s1 == Closing2(s, 63, "A", 1, "C")
             s2 == Closing2(s1, 64, "B", 0, "A")
             s3 == Closing2(s2, 65, "C", 1, "B")
         IN  [RkStore(RkStore(RkStore(s3, 66, s3.A), 67, s3.B), 68, s3.C) EXCEPT !.at = "ret"]

Simon128256KeySchedule(K, s) ==
    IF s.at = "entry"
    THEN [s EXCEPT !.D = Rd(K, 3), !.C = Rd(K, 2), !.B = Rd(K, 1), !.A = Rd(K, 0),
                   !.z = z_fdc9, !.i = 0, !.at = "loop"]
    ELSE IF s.i < 64
    THEN SubRound4(SubRound4(SubRound4(SubRound4(s, "A", "D", "B"), "B", "A", "C"),
                             "C", "B", "D"), "D", "C", "A")
    ELSE LET s1 == Closing4(s, 64, "A", 0, "D", "B")
             s2 == Closing4(s1, 65, "B", 1, "A", "C")
             s3 == Closing4(s2, 66, "C", 0, "B", "D")
             s4 == Closing4(s3, 67, "D", 0, "C", "A")
         IN  [RkStore(RkStore(RkStore(RkStore(s4, 68, s4.A), 69, s4.B), 70, s4.C), 71, s4.D)
                EXCEPT !.at = "ret"]

(* ------------------------ encryption and decryption -------------------- *)
\* The frame of a block routine:
\*   at       "entry", "loop" or "ret", as for a key schedule
\*   i, t     its locals
\*   Pt, Ct   the arrays it was handed as Pt[] and Ct[]
\*   reads    the indices of rk read so far, in order
BlkFrame(Pt, Ct) ==
    [at |-> "entry", i |-> 0, t |-> {}, Pt |-> Pt, Ct |-> Ct, reads |-> <<>>]

\* Ct[1]=Pt[1]; Ct[0]=Pt[0];   (either order: the two stores are independent)
EncCopy(s, i0) ==
    [s EXCEPT !.Ct = Wr(Wr(@, 1, Rd(s.Pt, 1)), 0, Rd(s.Pt, 0)), !.i = i0, !.at = "loop"]
\* Pt[1]=Ct[1]; Pt[0]=Ct[0];
DecCopy(s, i0) ==
    [s EXCEPT !.Pt = Wr(Wr(@, 1, Rd(s.Ct, 1)), 0, Rd(s.Ct, 0)), !.i = i0, !.at = "loop"]
\* R32x2(Ct[1],Ct[0],rk[a],rk[b]) for w = 32, R64x2(...) for w = 64, and the
\* loop counter after it
EncRound(w, rk, s, a, b, i1) ==
    LET xy == IF w = 32 THEN R32x2(Rd(s.Ct, 1), Rd(s.Ct, 0), Rd(rk, a), Rd(rk, b))
                        ELSE R64x2(Rd(s.Ct, 1), Rd(s.Ct, 0), Rd(rk, a), Rd(rk, b))
    IN  [s EXCEPT !.Ct = Wr(Wr(@, 1, xy[1]), 0, xy[2]),
                  !.reads = @ \o <<a, b>>, !.i = i1]
\* R32x2(Pt[0],Pt[1],rk[a],rk[b]) for w = 32, R64x2(...) for w = 64, and the
\* loop counter after it
DecRound(w, rk, s, a, b, i1) ==
    LET xy == IF w = 32 THEN R32x2(Rd(s.Pt, 0), Rd(s.Pt, 1), Rd(rk, a), Rd(rk, b))
                        ELSE R64x2(Rd(s.Pt, 0), Rd(s.Pt, 1), Rd(rk, a), Rd(rk, b))
    IN  [s EXCEPT !.Pt = Wr(Wr(@, 0, xy[1]), 1, xy[2]),
                  !.reads = @ \o <<a, b>>, !.i = i1]

Simon6496Encrypt(rk, s) ==
    IF s.at = "entry" THEN EncCopy(s, 0)
    ELSE IF s.i < 42 THEN EncRound(32, rk, s, s.i, s.i + 1, s.i + 2)
    ELSE [s EXCEPT !.at = "ret"]
\* Simon6496Decrypt with the two round keys of a double round exchanged
Simon6496DecryptSwapped(rk, s) ==
    IF s.at = "entry" THEN DecCopy(s, 41)
    ELSE IF s.i >= 0 THEN DecRound(32, rk, s, s.i - 1, s.i, s.i - 2)
    ELSE [s EXCEPT !.at = "ret"]
Simon6496Decrypt(rk, s) ==
    IF s.at = "entry" THEN DecCopy(s, 41)
    ELSE IF s.i >= 0 THEN DecRound(32, rk, s, s.i, s.i - 1, s.i - 2)
    ELSE [s EXCEPT !.at = "ret"]

Simon64128Encrypt(rk, s) ==
    IF s.at = "entry" THEN EncCopy(s, 0)
    ELSE IF s.i < 44 THEN EncRound(32, rk, s, s.i, s.i + 1, s.i + 2)
    ELSE [s EXCEPT !.at = "ret"]
Simon64128Decrypt(rk, s) ==
    IF s.at = "entry" THEN DecCopy(s, 43)
    ELSE IF s.i >= 0 THEN DecRound(32, rk, s, s.i, s.i - 1, s.i - 2)
    ELSE [s EXCEPT !.at = "ret"]

Simon128128Encrypt(rk, s) ==
    IF s.at = "entry" THEN EncCopy(s, 0)
    ELSE IF s.i < 68 THEN EncRound(64, rk, s, s.i, s.i + 1, s.i + 2)
    ELSE [s EXCEPT !.at = "ret"]
Simon128128Decrypt(rk, s) ==
    IF s.at = "entry" THEN DecCopy(s, 67)
    ELSE IF s.i >= 0 THEN DecRound(64, rk, s, s.i, s.i - 1, s.i - 2)
    ELSE [s EXCEPT !.at = "ret"]

\* t=Ct[1]; Ct[1]=Ct[0]^f64(Ct[1])^rk[68]; Ct[0]=t;
Simon128192EncryptLast(rk, s) ==
    LET t == Rd(s.Ct, 1)
        c1 == XOR(XOR(Rd(s.Ct, 0), f64(Rd(s.Ct, 1))), Rd(rk, 68))
    IN  [s EXCEPT !.t = t, !.Ct = Wr(Wr(@, 1, c1), 0, t), !.reads = Append(@, 68)]
\* t=Pt[0]; Pt[0]=Pt[1]^f64(Pt[0])^rk[k]; Pt[1]=t;
Simon128192DecryptHalf(rk, s, k) ==
    LET t == Rd(s.Pt, 0)
        p0 == XOR(XOR(Rd(s.Pt, 1), f64(Rd(s.Pt, 0))), Rd(rk, k))
    IN  [s EXCEPT !.t = t, !.Pt = Wr(Wr(@, 0, p0), 1, t), !.reads = Append(@, k)]

Simon128192Encrypt(rk, s) ==
    IF s.at = "entry" THEN EncCopy(s, 0)
    ELSE IF s.i < 68 THEN EncRound(64, rk, s, s.i, s.i + 1, s.i + 2)
    ELSE [Simon128192EncryptLast(rk, s) EXCEPT !.at = "ret"]
\* Simon128192Decrypt with the half-round of rk[68] after the loop
Simon128192DecryptLate(rk, s) ==
    IF s.at = "entry" THEN DecCopy(s, 67)
    ELSE IF s.i >= 0 THEN [Simon128192DecryptHalf(rk, s, s.i) EXCEPT !.i = @ - 1]
    ELSE [Simon128192DecryptHalf(rk, s, 68) EXCEPT !.at = "ret"]
Simon128192Decrypt(rk, s) ==
    IF s.at = "entry" THEN Simon128192DecryptHalf(rk, DecCopy(s, 67), 68)
    ELSE IF s.i >= 0 THEN [Simon128192DecryptHalf(rk, s, s.i) EXCEPT !.i = @ - 1]
    ELSE [s EXCEPT !.at = "ret"]

Simon128256Encrypt(rk, s) ==
    IF s.at = "entry" THEN EncCopy(s, 0)
    ELSE IF s.i < 72 THEN EncRound(64, rk, s, s.i, s.i + 1, s.i + 2)
    ELSE [s EXCEPT !.at = "ret"]
Simon128256Decrypt(rk, s) ==
    IF s.at = "entry" THEN DecCopy(s, 71)
    ELSE IF s.i >= 0 THEN DecRound(64, rk, s, s.i, s.i - 1, s.i - 2)
    ELSE [s EXCEPT !.at = "ret"]

(* ------------------------- the calls of the dispatcher ----------------- *)
\* Branch with the test of the last key size of each block size left out
BranchFallback(sz_txt, sz_key) ==
    IF sz_txt = 64
    THEN IF sz_key = 96 THEN "64_96" ELSE "64_128"
    ELSE IF sz_txt = 128
    THEN IF sz_key = 128 THEN "128_128"
         ELSE IF sz_key = 192 THEN "128_192"
         ELSE "128_256"
    ELSE "none"

\* The branch of dpi_c_run_simon that (sz_txt, sz_key) selects, "none" for
\* the three branches that report a failure.
Branch(sz_txt, sz_key) ==
    IF sz_txt = 64
    THEN IF sz_key = 96 THEN "64_96"
         ELSE IF sz_key = 128 THEN "64_128"
         ELSE "none"
    ELSE IF sz_txt = 128
    THEN IF sz_key = 128 THEN "128_128"
         ELSE IF sz_key = 192 THEN "128_192"
         ELSE IF sz_key = 256 THEN "128_256"
         ELSE "none"
    ELSE "none"

\* u32 rk[N_ROUNDS__64_96]; and its like: the declared size of rk
RkSize(b) ==
    CASE b = "64_96" -> N_ROUNDS__64_96
      [] b = "64_128" -> N_ROUNDS__64_128
      [] b = "128_128" -> N_ROUNDS__128_128
      [] b = "128_192" -> N_ROUNDS__128_192
      [] b = "128_256" -> N_ROUNDS__128_256

\* the key-schedule routine the branch calls, advanced by one step
KeyScheduleOf(b, K, s) ==
    CASE b = "64_96" -> Simon6496KeySchedule(K, s)
      [] b = "64_128" -> Simon64128KeySchedule(K, s)
      [] b = "128_128" -> Simon128128KeySchedule(K, s)
      [] b = "128_192" -> Simon128192KeySchedule(K, s)
      [] b = "128_256" -> Simon128256KeySchedule(K, s)
EncryptOf(b, rk, s) ==
    CASE b = "64_96" -> Simon6496Encrypt(rk, s)
      [] b = "64_128" -> Simon64128Encrypt(rk, s)
      [] b = "128_128" -> Simon128128Encrypt(rk, s)
      [] b = "128_192" -> Simon128192Encrypt(rk, s)
      [] b = "128_256" -> Simon128256Encrypt(rk, s)
DecryptOf(b, rk, s) ==
    CASE b = "64_96" -> Simon6496Decrypt(rk, s)
      [] b = "64_128" -> Simon64128Decrypt(rk, s)
      [] b = "128_128" -> Simon128128Decrypt(rk, s)
      [] b = "128_192" -> Simon128192Decrypt(rk, s)
      [] b = "128_256" -> Simon128256Decrypt(rk, s)

\* A routine run from its entry to its return.
RECURSIVE KeyScheduleRun(_, _, _)
KeyScheduleRun(b, K, s) ==
    IF s.at = "ret" THEN s ELSE KeyScheduleRun(b, K, KeyScheduleOf(b, K, s))
RECURSIVE EncryptRun(_, _, _)
EncryptRun(b, rk, s) ==
    IF s.at = "ret" THEN s ELSE EncryptRun(b, rk, EncryptOf(b, rk, s))
RECURSIVE DecryptRun(_, _, _)
DecryptRun(b, rk, s) ==
    IF s.at = "ret" THEN s ELSE DecryptRun(b, rk, DecryptOf(b, rk, s))
\* rk after KeySchedule(K, rk); Ct after Encrypt(Pt, Ct, rk); Pt after
\* Decrypt(Pt, Ct, rk)
KeySchedule(b, K) == KeyScheduleRun(b, K, KsFrame(RkSize(b))).rk
Encrypt(b, Pt, rk) == EncryptRun(b, rk, BlkFrame(Pt, Unassigned)).Ct
Decrypt(b, Ct, rk) == DecryptRun(b, rk, BlkFrame(Unassigned, Ct)).Pt

(* ------------------------------ the testbench -------------------------- *)
\* The sizes, in bytes, of the open arrays the testbench hands over.
TxtSizes == {2, 8, 16}
KeySizes == {8, 12, 16, 24, 32}
\* svSize(h, 1) of an open array with svLow = 0
svSize(arr) == Cardinality(DOMAIN arr)

\* the byte array of n bytes of pattern seed (pattern 0 is ad ad ad ...,
\* pattern 1 is 00 01 02 ...)
Pattern(seed, n) == [k \in 0..(n - 1) |-> Lit((seed * k + 83 * (seed - 1)) % 256)]
\* the bytes of an array of words of w bits, least significant byte first
Bytes(words, w) ==
    [k \in 0..(svSize(words) * (w \div 8) - 1) |->
        U8(SHR(words[k \div (w \div 8)], 8 * (k % (w \div 8))))]
Pair(w1, w0) == (0 :> w0) @@ (1 :> w1)

\* The published test vectors: plaintext and ciphertext words as
\* <<word 1, word 0>>, and (KatKey) the key words K[0], K[1], ...
KatPt(b) ==
    CASE b = "64_96" -> Pair(Hex(<<6,15,7,2,2,0,6,7>>), Hex(<<6,14,6,9,6,12,6,3>>))
      [] b = "64_128" -> Pair(Hex(<<6,5,6,11,6,9,6,12>>), Hex(<<2,0,6,4,6,14,7,5>>))
      [] b = "128_128" -> Pair(Hex(<<6,3,7,3,6,5,6,4,2,0,7,3,7,2,6,5>>),
                               Hex(<<6,12,6,12,6,5,7,6,6,1,7,2,7,4,2,0>>))
      [] b = "128_192" -> Pair(Hex(<<2,0,6,5,7,2,6,5,6,8,7,4,2,0,6,14>>),
                               Hex(<<6,5,6,8,7,7,2,0,6,5,6,2,6,9,7,2>>))
      [] b = "128_256" -> Pair(Hex(<<7,4,2,0,6,14,6,9,2,0,6,13,6,15,6,15>>),
                               Hex(<<6,13,6,9,7,3,2,0,6,1,2,0,7,3,6,9>>))
KatCt(b) ==
    CASE b = "64_96" -> Pair(Hex(<<5,12,10,2,14,2,7,15>>), Hex(<<1,1,1,10,8,15,12,8>>))
      [] b = "64_128" -> Pair(Hex(<<4,4,12,8,15,12,2,0>>), Hex(<<11,9,13,15,10,0,7,10>>))
      [] b = "128_128" -> Pair(Hex(<<4,9,6,8,1,11,1,14,1,14,5,4,15,14,3,15>>),
                               Hex(<<6,5,10,10,8,3,2,10,15,8,4,14,0,11,11,12>>))
      [] b = "128_192" -> Pair(Hex(<<12,4,10,12,6,1,14,15,15,12,13,12,0,13,4,15>>),
                               Hex(<<6,12,9,12,8,13,6,14,2,5,9,7,11,8,5,11>>))
      [] b = "128_256" -> Pair(Hex(<<8,13,2,11,5,5,7,9,10,15,12,8,10,3,10,0>>),
                               Hex(<<3,11,15,7,2,10,8,7,14,15,14,7,11,8,6,8>>))
KatKey(b) ==
    CASE b = "64_96" -> <<Hex(<<0,3,0,2,0,1,0,0>>), Hex(<<0,11,0,10,0,9,0,8>>),
                          Hex(<<1,3,1,2,1,1,1,0>>)>>
      [] b = "64_128" -> <<Hex(<<0,3,0,2,0,1,0,0>>), Hex(<<0,11,0,10,0,9,0,8>>),
                           Hex(<<1,3,1,2,1,1,1,0>>), Hex(<<1,11,1,10,1,9,1,8>>)>>
      [] b = "128_128" -> <<Hex(<<0,7,0,6,0,5,0,4,0,3,0,2,0,1,0,0>>),
                            Hex(<<0,15,0,14,0,13,0,12,0,11,0,10,0,9,0,8>>)>>
      [] b = "128_192" -> <<Hex(<<0,7,0,6,0,5,0,4,0,3,0,2,0,1,0,0>>),
                            Hex(<<0,15,0,14,0,13,0,12,0,11,0,10,0,9,0,8>>),
                            Hex(<<1,7,1,6,1,5,1,4,1,3,1,2,1,1,1,0>>)>>
      [] b = "128_256" -> <<Hex(<<0,7,0,6,0,5,0,4,0,3,0,2,0,1,0,0>>),
                            Hex(<<0,15,0,14,0,13,0,12,0,11,0,10,0,9,0,8>>),
                            Hex(<<1,7,1,6,1,5,1,4,1,3,1,2,1,1,1,0>>),
                            Hex(<<1,15,1,14,1,13,1,12,1,11,1,10,1,9,1,8>>)>>
\* the array of a tuple of words: element k is the (k+1)-th of the tuple
Arr(tuple) == [k \in 0..(Len(tuple) - 1) |-> tuple[k + 1]]

\* what the testbench hands to a first call
TxtInputs(n) ==
    {Pattern(seed, n) : seed \in 0..MaxTxtSeed}
    \cup (IF n = 8 THEN {Bytes(KatPt("64_96"), 32), Bytes(KatPt("64_128"), 32)} ELSE {})
    \cup (IF n = 16 THEN {Bytes(KatPt("128_128"), 64), Bytes(KatPt("128_192"), 64),
                          Bytes(KatPt("128_256"), 64)} ELSE {})
KeyInputs(n) ==
    {Pattern(seed, n) : seed \in 0..MaxKeySeed}
    \cup (IF n = 12 THEN {Bytes(Arr(KatKey("64_96")), 32)} ELSE {})
    \cup (IF n = 16 THEN {Bytes(Arr(KatKey("64_128")), 32), Bytes(Arr(KatKey("128_128")), 64)} ELSE {})
    \cup (IF n = 24 THEN {Bytes(Arr(KatKey("128_192")), 64)} ELSE {})
    \cup (IF n = 32 THEN {Bytes(Arr(KatKey("128_256")), 64)} ELSE {})

\* the values a build may find in storage that was never assigned
Garbage(w) == {{}, {k \in 0..(w - 1) : k % 2 = 0}}

(* ------------------------------- the state ----------------------------- *)
VARIABLES
    pc,           \* where dpi_c_run_simon is: "idle" between calls
    calls,        \* calls that have returned
    crypto_mode, txt_i, key_i, txt_o,   \* the arguments of the call
    sz_txt, sz_key,
    txti_u8, key_u8, txto_u8,           \* the byte arrays
    txti_w, key_w, txto_w,              \* txti_u32/u64, key_u32/u64, txto_u32/u64
    branch,       \* the variant branch entered, "none" before and without
    ks,           \* the frame of the key schedule, with rk
    blk,          \* the frame of the block routine
    log,          \* the io_printf lines: "INFO", "FAILURE"
    ran,          \* the routines called, in order
    acc,          \* the indices step 4 read in txto_w (rd), wrote in txto_u8 (wr)
    indet,        \* the indices of txt_o written from never-assigned storage
    prev          \* the call before this one

args == <<crypto_mode, txt_i, key_i, sz_txt, sz_key>>
bytes == <<txti_u8, key_u8, txto_u8>>
words == <<txti_w, key_w, txto_w>>
frames == <<branch, ks, blk, ran>>
vars == <<pc, calls, args, txt_o, bytes, words, frames, log, acc, indet, prev>>

NoCall == [mode |-> -1, txt_i |-> Unassigned, key_i |-> Unassigned, txt_o |-> Unassigned,
           txti_w |-> Unassigned, txto_w |-> Unassigned, branch |-> "none"]

Init ==
    /\ pc = "idle" /\ calls = 0
    /\ crypto_mode = MODE_ENC /\ txt_i = Unassigned /\ key_i = Unassigned /\ txt_o = Unassigned
    /\ sz_txt = 0 /\ sz_key = 0
    /\ txti_u8 = Unassigned /\ key_u8 = Unassigned /\ txto_u8 = Unassigned
    /\ txti_w = Unassigned /\ key_w = Unassigned /\ txto_w = Unassigned
    /\ branch = "none" /\ ks = KsFrame(0) /\ blk = BlkFrame(Unassigned, Unassigned)
    /\ log = <<>> /\ ran = <<>> /\ acc = [rd |-> {}, wr |-> {}] /\ indet = {}
    /\ prev = NoCall

(* --------------------------- dpi_c_run_simon --------------------------- *)
\* The testbench calls dpi_c_run_simon(mode, t, k, txt_o): the sizes are
\* taken, the INFO line is printed, the byte arrays are declared.
Enter(mode, t, k) ==
    /\ pc = "idle" /\ calls < MaxCalls
    /\ crypto_mode' = mode /\ txt_i' = t /\ key_i' = k
    /\ txt_o' = [j \in DOMAIN t |-> Lit(0)]
    /\ sz_txt' = svSize(t) * 8 /\ sz_key' = svSize(k) * 8
    /\ log' = <<"INFO">>
    /\ txti_u8' = Unassigned /\ key_u8' = Unassigned /\ txto_u8' = Unassigned
    /\ txti_w' = Unassigned /\ key_w' = Unassigned /\ txto_w' = Unassigned
    /\ branch' = "none" /\ ks' = KsFrame(0) /\ blk' = BlkFrame(Unassigned, Unassigned)
    /\ ran' = <<>> /\ acc' = [rd |-> {}, wr |-> {}] /\ indet' = {}
    /\ pc' = "copy_in"
    /\ UNCHANGED <<calls, prev>>

\* a first call, on any text and key of the testbench
FirstCall ==
    /\ pc = "idle" /\ calls = 0
    /\ \E mode \in {MODE_ENC, MODE_DEC}, nt \in TxtSizes, nk \in KeySizes :
         \E t \in TxtInputs(nt), k \in KeyInputs(nk) : Enter(mode, t, k)

\* a later call, the other way, on the output of the call before it and
\* with the same key
NextCall ==
    /\ pc = "idle" /\ calls > 0
    /\ Enter(IF crypto_mode = MODE_ENC THEN MODE_DEC ELSE MODE_ENC, txt_o, key_i)

\* steps 1a and 1b
CopyIn ==
    /\ pc = "copy_in"
    /\ txti_u8' = [i \in 0..(svSize(txt_i) - 1) |-> txt_i[i]]
    /\ key_u8' = [i \in 0..(svSize(key_i) - 1) |-> key_i[i]]
    /\ pc' = "to_words"
    /\ UNCHANGED <<calls, args, txt_o, txto_u8, words, frames, log, acc, indet, prev>>

\* step 2 of the branch sz_txt == 64
ToWords32 ==
    /\ pc = "to_words" /\ sz_txt = 64
    /\ txti_w' = BytesToWords32(txti_u8, Unassigned, sz_txt \div 8)
    /\ key_w' = BytesToWords32(key_u8, Unassigned, sz_key \div 8)
    /\ pc' = "select"
    /\ UNCHANGED <<calls, args, txt_o, bytes, txto_w, frames, log, acc, indet, prev>>

\* step 2 of the branch sz_txt == 128
ToWords64 ==
    /\ pc = "to_words" /\ sz_txt # 64 /\ sz_txt = 128
    /\ txti_w' = BytesToWords64(txti_u8, Unassigned, sz_txt \div 8)
    /\ key_w' = BytesToWords64(key_u8, Unassigned, sz_key \div 8)
    /\ pc' = "select"
    /\ UNCHANGED <<calls, args, txt_o, bytes, txto_w, frames, log, acc, indet, prev>>

\* the last else: neither block size
FailBlockSize ==
    /\ pc = "to_words" /\ sz_txt # 64 /\ sz_txt # 128
    /\ log' = Append(log, "FAILURE")
    /\ pc' = "copy_out"
    /\ UNCHANGED <<calls, args, txt_o, bytes, words, frames, acc, indet, prev>>

\* step 3: the key size selects the variant, and rk is declared
SelectVariant ==
    /\ pc = "select" /\ Branch(sz_txt, sz_key) # "none"
    /\ branch' = Branch(sz_txt, sz_key)
    /\ ks' = KsFrame(RkSize(Branch(sz_txt, sz_key)))
    /\ pc' = "ks"
    /\ UNCHANGED <<calls, args, txt_o, bytes, words, blk, ran, log, acc, indet, prev>>

\* step 3: the inner else, no variant of this block size has this key size
FailKeySize ==
    /\ pc = "select" /\ Branch(sz_txt, sz_key) = "none"
    /\ log' = Append(log, "FAILURE")
    /\ pc' = "to_bytes"
    /\ UNCHANGED <<calls, args, txt_o, bytes, words, frames, acc, indet, prev>>

\* one step of the key schedule of the branch
KeyScheduleStep ==
    /\ pc = "ks"
    /\ ks' = KeyScheduleOf(branch, key_w, ks)
    /\ ran' = IF ks.at = "entry" THEN Append(ran, <<"KeySchedule", branch>>) ELSE ran
    /\ pc' = IF ks'.at = "ret" THEN "crypt" ELSE "ks"
    /\ UNCHANGED <<calls, args, txt_o, bytes, words, branch, blk, log, acc, indet, prev>>

\* BlockCall with Decrypt(txti, txto, rk): the arguments of Encrypt
BlockCallSameArgs(b, mode, rk, s, txti, txto) ==
    IF mode = MODE_ENC
    THEN LET r == EncryptOf(b, rk, [s EXCEPT !.Pt = txti, !.Ct = txto])
         IN  [frame |-> r, txti |-> r.Pt, txto |-> r.Ct, fn |-> "Encrypt"]
    ELSE LET r == DecryptOf(b, rk, [s EXCEPT !.Pt = txti, !.Ct = txto])
         IN  [frame |-> r, txti |-> r.Pt, txto |-> r.Ct, fn |-> "Decrypt"]

\* if (crypto_mode == MODE_ENC) Encrypt(txti, txto, rk); else Decrypt(txto, txti, rk);
\* advanced by one step of the routine, s being its frame
BlockCall(b, mode, rk, s, txti, txto) ==
    IF mode = MODE_ENC
    THEN LET r == EncryptOf(b, rk, [s EXCEPT !.Pt = txti, !.Ct = txto])
         IN  [frame |-> r, txti |-> r.Pt, txto |-> r.Ct, fn |-> "Encrypt"]
    ELSE LET r == DecryptOf(b, rk, [s EXCEPT !.Pt = txto, !.Ct = txti])
         IN  [frame |-> r, txti |-> r.Ct, txto |-> r.Pt, fn |-> "Decrypt"]

\* one step of the encryption or decryption of the branch
BlockStep ==
    /\ pc = "crypt"
    /\ LET c == BlockCall(branch, crypto_mode, ks.rk, blk, txti_w, txto_w)
       IN  /\ blk' = c.frame /\ txti_w' = c.txti /\ txto_w' = c.txto
           /\ ran' = IF blk.at = "entry" THEN Append(ran, <<c.fn, branch>>) ELSE ran
           /\ pc' = IF c.frame.at = "ret" THEN "to_bytes" ELSE "crypt"
    /\ UNCHANGED <<calls, args, txt_o, bytes, key_w, branch, ks, log, acc, indet, prev>>

\* the numwords argument of step 4
OutNumWords(sz) == sz \div 8

\* step 4, Words32ToBytes or Words64ToBytes on txto.  Words of txto never
\* assigned hold what the build left there (g).  A store outside txto_u8
\* overwrites other storage of the process: the call goes on, or the
\* process dies of it.
ToBytes ==
    /\ pc = "to_bytes"
    /\ \E g \in [(0..(sz_txt \div (IF sz_txt = 64 THEN 32 ELSE 64) - 1)) \ DOMAIN txto_w
                    -> Garbage(IF sz_txt = 64 THEN 32 ELSE 64)] :
         LET m0 == [words |-> txto_w, bytes |-> txto_u8, nbytes |-> sz_txt \div 8,
                    g |-> g, rd |-> {}, wr |-> {}, indet |-> {}]
             m == IF sz_txt = 64 THEN Words32ToBytes(m0, OutNumWords(sz_txt))
                                 ELSE Words64ToBytes(m0, OutNumWords(sz_txt))
         IN  /\ txto_u8' = m.bytes
             /\ acc' = [rd |-> m.rd, wr |-> m.wr]
             /\ indet' = m.indet
             /\ \/ pc' = "copy_out"
                \/ m.wr \ (0..(sz_txt \div 8 - 1)) # {} /\ pc' = "aborted"
    /\ UNCHANGED <<calls, args, txt_o, txti_u8, key_u8, words, frames, log, prev>>

\* step 5: txto_u8 goes to txt_o, over the index range of txt_i; a byte of
\* txto_u8 never assigned is whatever the build left there (g)
CopyOut ==
    /\ pc = "copy_out"
    /\ \E g \in [(0..(svSize(txt_i) - 1)) \ DOMAIN txto_u8 -> Garbage(8)] :
         /\ txt_o' = [i \in 0..(svSize(txt_i) - 1) |->
                        IF i \in DOMAIN txto_u8 THEN txto_u8[i] ELSE g[i]]
         /\ indet' = indet \cup DOMAIN g
    /\ pc' = "done"
    /\ UNCHANGED <<calls, args, bytes, words, frames, log, acc, prev>>

\* the call returns to the testbench
Return ==
    /\ pc = "done"
    /\ prev' = [mode |-> crypto_mode, txt_i |-> txt_i, key_i |-> key_i, txt_o |-> txt_o,
                txti_w |-> txti_w, txto_w |-> txto_w, branch |-> branch]
    /\ calls' = calls + 1
    /\ pc' = "idle"
    /\ UNCHANGED <<args, txt_o, bytes, words, frames, log, acc, indet>>

Next ==
    \/ FirstCall \/ NextCall \/ CopyIn
    \/ ToWords32 \/ ToWords64 \/ FailBlockSize
    \/ SelectVariant \/ FailKeySize
    \/ KeyScheduleStep \/ BlockStep
    \/ ToBytes \/ CopyOut \/ Return

Spec == Init /\ [][Next]_vars

(* ======================================================================= *)
(* The claims.                                                             *)
(* ======================================================================= *)
\* the five supported (block bits, key bits) pairs and the name of each
FivePairs == {<<64, 96>>, <<64, 128>>, <<128, 128>>, <<128, 192>>, <<128, 256>>}
PairName(t, k) ==
    CASE <<t, k>> = <<64, 96>> -> "64_96"
      [] <<t, k>> = <<64, 128>> -> "64_128"
      [] <<t, k>> = <<128, 128>> -> "128_128"
      [] <<t, k>> = <<128, 192>> -> "128_192"
      [] <<t, k>> = <<128, 256>> -> "128_256"
RoundCount(b) ==
    CASE b = "64_96" -> 42 [] b = "64_128" -> 44 [] b = "128_128" -> 68
      [] b = "128_192" -> 69 [] b = "128_256" -> 72
KeyWords(b) ==
    CASE b = "64_96" -> 3 [] b = "64_128" -> 4 [] b = "128_128" -> 2
      [] b = "128_192" -> 3 [] b = "128_256" -> 4
ZOf(b) ==
    CASE b = "64_96" -> z_7369 [] b = "64_128" -> z_fc2c [] b = "128_128" -> z_7369
      [] b = "128_192" -> z_fc2c [] b = "128_256" -> z_fdc9
Supported == <<sz_txt, sz_key>> \in FivePairs
\* step 3 is over: the block routine has returned, or a failure was reported
AfterStep3 == pc \in {"to_bytes", "copy_out", "done", "aborted"} \/ (pc = "idle" /\ calls > 0)
RangeOf(seq) == {seq[k] : k \in 1..Len(seq)}

\* C1 (round trip): with rk the schedule the key schedule of a variant has
\* just produced from the key of the call, decrypting under rk the
\* encryption under rk of the two-word block of the call gives back that
\* block, both words in their positions.
C1_RoundTrip ==
    (pc = "crypt" /\ blk.at = "entry") =>
        /\ DOMAIN txti_w = {0, 1}
        /\ Decrypt(branch, Encrypt(branch, txti_w, ks.rk), ks.rk) = txti_w
C1_Witness ==
    /\ pc = "crypt" /\ blk.at = "entry" /\ branch = "128_192"
    /\ Encrypt(branch, txti_w, ks.rk) # txti_w
    /\ Decrypt(branch, Encrypt(branch, txti_w, ks.rk), ks.rk) = txti_w

\* C2 (dispatch and rejection): on one of the five supported pairs the call
\* runs the key schedule of exactly that variant and then its encryption or
\* decryption, and reports no failure; on any other pair it reports a
\* failure and runs no key schedule, encryption or decryption: rk and txto
\* stay untouched.
C2_Dispatch ==
    IF Supported
    THEN LET b == PairName(sz_txt, sz_key)
             want == <<<<"KeySchedule", b>>,
                       <<IF crypto_mode = MODE_ENC THEN "Encrypt" ELSE "Decrypt", b>>>>
         IN  /\ log = <<"INFO">>
             /\ Len(ran) <= 2 /\ ran = SubSeq(want, 1, Len(ran))
             /\ AfterStep3 => ran = want
             /\ branch \in {"none", b}
    ELSE /\ ran = <<>> /\ branch = "none"
         /\ ks.rk = Unassigned /\ ks.writes = <<>> /\ ks.at = "entry"
         /\ blk.reads = <<>> /\ blk.at = "entry" /\ txto_w = Unassigned
         /\ AfterStep3 => log = <<"INFO", "FAILURE">>
C2_Witness ==
    /\ pc = "done" /\ sz_txt = 64 /\ sz_key = 192
    /\ log = <<"INFO", "FAILURE">> /\ ran = <<>>

\* C3 (no output on error): a call that rejects its pair leaves txt_o as
\* the caller had it and writes to it no byte of never-assigned storage.
C3_NoOutputOnError ==
    (pc = "done" /\ ~Supported) =>
        /\ txt_o = [j \in DOMAIN txt_i |-> Lit(0)]
        /\ indet = {}

\* C4 (output marshalling in bounds): on a supported pair step 4 reads the
\* two words of txto only and writes inside txto_u8 only.
C4_MarshalInBounds ==
    (Supported /\ pc \in {"copy_out", "done", "aborted"}) =>
        /\ acc.rd \subseteq 0..1
        /\ acc.wr \subseteq 0..(sz_txt \div 8 - 1)

\* C5 (schedule length): a key schedule assigns no index of rk twice and
\* none at or past the round count N of its variant, which is the size rk
\* was declared with, and has assigned every index below N when it returns.
C5_ScheduleLength ==
    branch # "none" =>
        LET N == RoundCount(branch)
        IN  /\ ks.n = N
            /\ RangeOf(ks.writes) \subseteq 0..(N - 1)
            /\ Cardinality(RangeOf(ks.writes)) = Len(ks.writes)
            /\ DOMAIN ks.rk = RangeOf(ks.writes)
            /\ ks.at = "ret" => RangeOf(ks.writes) = 0..(N - 1)
C5_Witness ==
    /\ branch = "128_192" /\ ks.at = "ret" /\ Len(ks.writes) = 69 /\ DOMAIN ks.rk = 0..68

\* C6 (direction flag): on a supported pair, MODE_ENC leaves in txto the
\* encryption of the input words under the schedule of the key, and
\* MODE_DEC their decryption; the input words are as converted from txt_i,
\* not overwritten; and a MODE_DEC call on the output of a MODE_ENC call,
\* with the same key, returns the input of the MODE_ENC call.
C6_TxtiWords ==
    IF sz_txt = 64 THEN BytesToWords32(txt_i, Unassigned, 8)
                   ELSE BytesToWords64(txt_i, Unassigned, 16)
C6_DirectionFlag ==
    /\ (Supported /\ pc = "to_bytes") =>
          LET b == PairName(sz_txt, sz_key)
              rk == KeySchedule(b, key_w)
          IN  /\ txti_w = C6_TxtiWords
              /\ crypto_mode = MODE_ENC => txto_w = Encrypt(b, txti_w, rk)
              /\ crypto_mode = MODE_DEC => txto_w = Decrypt(b, txti_w, rk)
    /\ (Supported /\ pc = "done" /\ crypto_mode = MODE_DEC /\ prev.mode = MODE_ENC) =>
          /\ txto_w = prev.txti_w
          /\ txt_o = prev.txt_i
C6_Witness ==
    /\ pc = "done" /\ branch = "128_192"
    /\ crypto_mode = MODE_DEC /\ prev.mode = MODE_ENC
    /\ txt_i = prev.txt_o /\ key_i = prev.key_i
    /\ txt_i # prev.txt_i /\ txt_o = prev.txt_i

\* C7 (known-answer vectors): in each variant, the key schedule and the
\* encryption, on the published key and plaintext words, give the
\* published ciphertext words, word for word.
C7_OnKat(b) ==
    /\ branch = b /\ ran = <<<<"KeySchedule", b>>, <<"Encrypt", b>>>> /\ blk.at = "ret"
    /\ key_w = Arr(KatKey(b))
    /\ blk.Pt = KatPt(b)
C7_KnownAnswer ==
    \A b \in {"64_96", "64_128", "128_128", "128_192", "128_256"} :
        C7_OnKat(b) => blk.Ct = KatCt(b)
C7_Witness == C7_OnKat("64_96") /\ blk.Ct = KatCt("64_96")

\* C8 (round-key order): encryption reads rk[0], rk[1], ... in ascending
\* order and decryption rk[N-1], rk[N-2], ... in descending order, each
\* index once, assigned and below N, and all N of them by the return; in
\* Simon128/192 rk[68] is
\* read by the last step of encryption and by the first of decryption.
C8_RoundKeyOrder ==
    (branch # "none" /\ Len(ran) = 2) =>
        LET N == RoundCount(branch)
            r == blk.reads
        IN  /\ ran[2][1] = "Encrypt" => \A k \in 1..Len(r) : r[k] = k - 1
            /\ ran[2][1] = "Decrypt" => \A k \in 1..Len(r) : r[k] = N - k
            /\ Len(r) <= N /\ RangeOf(r) \subseteq DOMAIN ks.rk
            /\ blk.at = "ret" => Len(r) = N
            /\ (branch = "128_192" /\ ran[2][1] = "Decrypt") => r[1] = 68
            /\ (branch = "128_192" /\ ran[2][1] = "Encrypt" /\ blk.at = "ret") => r[69] = 68
C8_Witness ==
    /\ branch = "128_192" /\ Len(ran) = 2 /\ ran[2][1] = "Decrypt" /\ blk.at = "ret"
    /\ Len(blk.reads) = 69 /\ blk.reads[1] = 68 /\ blk.reads[69] = 0

\* C9 (round-constant bit order): the k-th bit a key schedule draws from
\* z (k = 0, 1, ...) is bit k of the z of its variant, and z has been
\* shifted right once per bit drawn.
C9_ConstantBitOrder ==
    (branch # "none" /\ ks.at # "entry") =>
        /\ \A k \in 1..Len(ks.bits) :
              ks.bits[k] = (IF (k - 1) \in ZOf(branch) THEN {0} ELSE {})
        /\ ks.z = {j - Len(ks.bits) : j \in {h \in ZOf(branch) : h >= Len(ks.bits)}}
        /\ Len(ks.bits) = (IF branch \in {"64_96", "64_128"} THEN Len(ks.writes)
                           ELSE ks.i) - (IF branch \in {"64_96", "64_128"} THEN KeyWords(branch) ELSE 0)
C9_Witness ==
    /\ branch = "128_256" /\ ks.at = "ret" /\ Len(ks.bits) = 64 /\ ks.z = {}
    /\ ks.bits[64] = {0} /\ ks.bits[3] = {}

\* C10 (closing updates continue the sequence): in the three schedules of
\* the 128-bit block, with m the number of key words and u the low 62 bits
\* of z, rk[i] = c ^ u[(i-m) mod 62] ^ rk[i-m] ^ ROTR64(rk[i-1],3) ^
\* ROTR64(rk[i-1],4), and ^ rk[i-3] ^ ROTR64(rk[i-3],1) when m = 4, for
\* every i from m to N-1 of the schedule as returned; and bits 62 and 63
\* of z are its bits 0 and 1.
C10_Entry(b, rk, i) ==
    LET m == KeyWords(b)
        u == IF ((i - m) % 62) \in ZOf(b) THEN {0} ELSE {}
        v == XOR(XOR(XOR(XOR(c64, u), rk[i - m]), ROTR64(rk[i - 1], 3)), ROTR64(rk[i - 1], 4))
    IN  IF m = 4 THEN XOR(XOR(v, rk[i - 3]), ROTR64(rk[i - 3], 1)) ELSE v
C10_ClosingRecurrence ==
    (branch \in {"128_128", "128_192", "128_256"} /\ pc = "crypt" /\ blk.at = "entry") =>
        /\ \A i \in KeyWords(branch)..(RoundCount(branch) - 1) :
              i \in DOMAIN ks.rk /\ ks.rk[i] = C10_Entry(branch, ks.rk, i)
        /\ (62 \in ZOf(branch)) = (0 \in ZOf(branch))
        /\ (63 \in ZOf(branch)) = (1 \in ZOf(branch))
C10_Witness ==
    /\ branch = "128_256" /\ pc = "crypt" /\ blk.at = "entry"
    /\ ks.rk[71] = C10_Entry("128_256", ks.rk, 71)
    /\ ks.rk[71] # ks.rk[67]

====
